---- MODULE Spec2Model ----
(***************************************************************************)
(* A model of liora/liora_observer.py: the LioraSentinel (construction,    *)
(* observe, export_report) with its helpers normalize, stable_vector_hash  *)
(* and the cosine distance it calls.                                       *)
(*                                                                         *)
(* Numbers.  float64 values that hold a cosine distance, an average or a   *)
(* threshold are fixed-point integers in units of 1/SCALE = 1e-7, one      *)
(* decimal digit finer than the 6 fractional digits the audit events are   *)
(* rounded to, so that rounding is not the identity.  Vectors are tuples of  *)
(* small integers whose Euclidean norm is an integer; a normalized vector  *)
(* is the exact fraction num/den in lowest terms.                          *)
(*                                                                         *)
(* Time.  datetime.now() is the logical time of the call: the number of    *)
(* audit events recorded so far.                                           *)
(*                                                                         *)
(* Two Sentinel instances are kept, `sentinel` and `twin`: both are built  *)
(* from the same origin and threshold, the twin with another window size,  *)
(* and every observe call is made on both with the same arguments.         *)
(***************************************************************************)
EXTENDS Integers, Sequences, FiniteSets, TLC

VARIABLES pc, sentinel, twin, raised, calls, returns, twin_returns, files

vars == <<pc, sentinel, twin, raised, calls, returns, twin_returns, files>>

-----------------------------------------------------------------------------
(* Bounds of the model *)

\* observe calls that succeed on one Sentinel
MaxCalls == 3

\* the window_size the Sentinel is constructed with
MaxWindow == 2

\* the window_size its twin is constructed with
TwinWindow == 1

-----------------------------------------------------------------------------
(* Values *)

\* fixed-point unit: 1.0 is SCALE
SCALE == 10 * 1000 * 1000

\* Python's None, and an int n, as the caller passes them for timestep_id
None == <<"None">>

PyInt(n) == <<"int", n>>

StepIds == {None, PyInt(1), PyInt(2)}

\* the vectors a caller observes: along the first axis, orthogonal to it,
\* opposite to it, the zero vector, and a vector of another dimension
Vectors == {<<1, 0>>, <<0, 1>>, <<-1, 0>>, <<0, 0>>, <<1, 0, 0>>}

\* the origins a caller constructs a Sentinel with
Origins == {<<1, 0>>, <<12, 5>>, <<0, 0>>}

\* the thresholds a caller configures: 0.01, 0.076923 and 1.0
Thresholds == {SCALE \div 100, 769230, SCALE}

\* the window sizes a caller configures
WindowSizes == {MaxWindow}

\* the destinations a caller exports to
Filenames == {"liora_report.json"}

\* a call's outcome: the exception it raised (None when it returned) and
\* the value it returned
Return(x) == [raised |-> None, value |-> x]

Raise(e) == [raised |-> <<"exception", e>>, value |-> None]

ValueError == <<"exception", "ValueError">>

-----------------------------------------------------------------------------
(* Helpers *)

Abs(n) == IF n < 0 THEN -n ELSE n

RECURSIVE Gcd(_, _)
Gcd(a, b) == IF b = 0 THEN a ELSE Gcd(b, a % b)

RECURSIVE GcdSeq(_)
GcdSeq(s) == IF s = <<>> THEN 0 ELSE Gcd(Abs(Head(s)), GcdSeq(Tail(s)))

RECURSIVE Sum(_)
Sum(s) == IF s = <<>> THEN 0 ELSE Head(s) + Sum(Tail(s))

\* np.dot of two vectors of one length
Dot(u, v) == Sum([i \in 1..Len(u) |-> u[i] * v[i]])

\* the square root of a perfect square (its floor otherwise)
ISqrt(n) == CHOOSE r \in 0..n : r * r <= n /\ (r + 1) * (r + 1) > n

\* np.linalg.norm
Norm(v) == ISqrt(Dot(v, v))

\* a / b for b > 0, rounded to the nearest fixed-point unit
RoundDiv(a, b) ==
    LET q == a \div b
        r == a % b
    IN  IF 2 * r >= b THEN q + 1 ELSE q

\* normalize without its own zero check: the division raises instead
normalizeUnchecked(v) ==
    LET n == Norm(v)
    IN  IF n = 0
        THEN Raise("ZeroDivisionError")
        ELSE LET g == Gcd(GcdSeq(v), n)
             IN  Return([num |-> [i \in 1..Len(v) |-> v[i] \div g],
                         den |-> n \div g])

\* normalize: raises ValueError on a vector of norm 0, returns v / n otherwise
normalize(v) ==
    LET n == Norm(v)
    IN  IF n = 0
        THEN Raise("ValueError")
        ELSE LET g == Gcd(GcdSeq(v), n)
             IN  Return([num |-> [i \in 1..Len(v) |-> v[i] \div g],
                         den |-> n \div g])

\* stable_vector_hash: the SHA-256 hex digest of the vector's bytes, one
\* digest per vector content
stable_vector_hash(v) == <<"sha256", v.num, v.den>>

\* the cosine similarity in place of the cosine distance
cosineSimilarity(u, v) ==
    IF Len(u.num) # Len(v.num)
    THEN Raise("ValueError")
    ELSE Return(RoundDiv(Dot(u.num, v.num) * SCALE, Norm(u.num) * Norm(v.num)))

\* scipy.spatial.distance.cosine: 1 - u.v / sqrt(u.u * v.v) clamped to
\* [0, 2]; ValueError when the shapes differ
cosine(u, v) ==
    IF Len(u.num) # Len(v.num)
    THEN Raise("ValueError")
    ELSE LET uv == Dot(u.num, v.num)
             d  == SCALE - RoundDiv(uv * SCALE, Norm(u.num) * Norm(v.num))
         IN  Return(IF d < 0 THEN 0 ELSE IF d > 2 * SCALE THEN 2 * SCALE ELSE d)

\* collections.deque(maxlen=window_size)
deque(maxlen) == [items |-> <<>>, maxlen |-> maxlen]

\* a list's append in place of the deque's: nothing is ever dropped
DequeAppendUnbounded(d, x) == [d EXCEPT !.items = Append(@, x)]

\* deque.append: at capacity the oldest item is dropped from the left
DequeAppend(d, x) ==
    IF Len(d.items) >= d.maxlen
    THEN [d EXCEPT !.items = Append(Tail(@), x)]
    ELSE [d EXCEPT !.items = Append(@, x)]

\* np.mean of the window
Mean(d) == RoundDiv(Sum(d.items), Len(d.items))

\* round(x, 6): to the nearest multiple of 1e-6, ties to even
Round6(x) ==
    LET q == x \div 10
        r == x % 10
    IN  10 * (IF r > 5 \/ (r = 5 /\ q % 2 = 1) THEN q + 1 ELSE q)

\* datetime.now(timezone.utc).isoformat()
Now(self) == <<"utc", Len(self.history)>>

-----------------------------------------------------------------------------
(* LioraSentinel *)

NoSentinel == [none |-> TRUE]

\* LioraSentinel.__init__
SentinelInit(origin_tii, threshold, window_size) ==
    LET o == normalize(origin_tii)
    IN  IF o.raised # None
        THEN [raised |-> o.raised, value |-> NoSentinel]
        ELSE Return([origin_tii    |-> o.value,
                     threshold     |-> threshold,
                     origin_hash   |-> stable_vector_hash(o.value),
                     history       |-> <<>>,
                     recent_drifts |-> deque(window_size)])

\* the decision taken with < in place of <=
IsSafeStrict(drift, avg_drift, threshold) == drift < threshold

\* the decision taken on the windowed average
IsSafeSmoothed(drift, avg_drift, threshold) == avg_drift <= threshold

\* the decision rule of observe
IsSafe(drift, avg_drift, threshold) == drift <= threshold

StatusOf(is_safe) == IF is_safe THEN "COHERENT" ELSE "DRIFT_ALERT"

\* the audit event with the step numbered by the Sentinel itself
MakeEventAutoStep(self, timestep_id, drift, avg_drift, is_safe) ==
    [timestamp       |-> Now(self),
     step_id         |-> PyInt(Len(self.history) + 1),
     drift_raw       |-> Round6(drift),
     drift_avg       |-> Round6(avg_drift),
     threshold       |-> self.threshold,
     status          |-> StatusOf(is_safe),
     origin_hash     |-> self.origin_hash,
     action_required |-> ~is_safe]

\* the audit event with the drift recorded as computed, not rounded
MakeEventUnrounded(self, timestep_id, drift, avg_drift, is_safe) ==
    [timestamp       |-> Now(self),
     step_id         |-> timestep_id,
     drift_raw       |-> drift,
     drift_avg       |-> Round6(avg_drift),
     threshold       |-> self.threshold,
     status          |-> StatusOf(is_safe),
     origin_hash     |-> self.origin_hash,
     action_required |-> ~is_safe]

\* the audit event observe builds
MakeEvent(self, timestep_id, drift, avg_drift, is_safe) ==
    [timestamp       |-> Now(self),
     step_id         |-> timestep_id,
     drift_raw       |-> Round6(drift),
     drift_avg       |-> Round6(avg_drift),
     threshold       |-> self.threshold,
     status          |-> StatusOf(is_safe),
     origin_hash     |-> self.origin_hash,
     action_required |-> ~is_safe]

\* a failed observe that first records the failure in the audit trail
ObserveRaiseLogged(self, exception) ==
    [self |-> [self EXCEPT !.history =
                   Append(@, [timestamp       |-> Now(self),
                              step_id         |-> None,
                              drift_raw       |-> 2 * SCALE,
                              drift_avg       |-> 2 * SCALE,
                              threshold       |-> self.threshold,
                              status          |-> "DRIFT_ALERT",
                              origin_hash     |-> self.origin_hash,
                              action_required |-> TRUE])],
     out  |-> [raised |-> exception, value |-> None]]

\* observe left by an exception of normalize or cosine: nothing was assigned
ObserveRaise(self, exception) ==
    [self |-> self, out |-> [raised |-> exception, value |-> None]]

\* the Sentinel re-anchored on the vector it has just observed
ObserveStoreReanchored(self, current, window, event) ==
    [self EXCEPT !.origin_tii    = current,
                 !.origin_hash   = stable_vector_hash(current),
                 !.recent_drifts = window,
                 !.history       = Append(@, event)]

\* the two assignments of observe: the window push and the history append
ObserveStore(self, current, window, event) ==
    [self EXCEPT !.recent_drifts = window,
                 !.history       = Append(@, event)]

\* LioraSentinel.observe: the Sentinel after the call, and the call's outcome
ObserveOp(self, current_tii, timestep_id) ==
    LET c == normalize(current_tii)
    IN  IF c.raised # None
        THEN ObserveRaise(self, c.raised)
        ELSE LET d == cosine(self.origin_tii, c.value)
             IN  IF d.raised # None
                 THEN ObserveRaise(self, d.raised)
                 ELSE LET drift     == d.value
                          window    == DequeAppend(self.recent_drifts, drift)
                          avg_drift == Mean(window)
                          is_safe   == IsSafe(drift, avg_drift, self.threshold)
                          event     == MakeEvent(self, timestep_id, drift,
                                                 avg_drift, is_safe)
                      IN  [self |-> ObserveStore(self, c.value, window, event),
                           out  |-> Return([is_safe   |-> is_safe,
                                            drift     |-> drift,
                                            avg_drift |-> avg_drift])]

-----------------------------------------------------------------------------
(* JSON *)

JNull == <<"null">>

JNumber(n) == <<"number", n>>

JString(s) == <<"string", s>>

JBool(b) == IF b THEN <<"true">> ELSE <<"false">>

\* json.dump of a step id: None is null, an int a number
StepIdToJson(x) == IF x = None THEN JNull ELSE JNumber(x[2])

\* json.load of a step id
StepIdFromJson(j) == IF j = JNull THEN None ELSE PyInt(j[2])

EventToJson(e) ==
    [timestamp       |-> JString(e.timestamp),
     step_id         |-> StepIdToJson(e.step_id),
     drift_raw       |-> JNumber(e.drift_raw),
     drift_avg       |-> JNumber(e.drift_avg),
     threshold       |-> JNumber(e.threshold),
     status          |-> JString(e.status),
     origin_hash     |-> JString(e.origin_hash),
     action_required |-> JBool(e.action_required)]

EventFromJson(j) ==
    [timestamp       |-> j.timestamp[2],
     step_id         |-> StepIdFromJson(j.step_id),
     drift_raw       |-> j.drift_raw[2],
     drift_avg       |-> j.drift_avg[2],
     threshold       |-> j.threshold[2],
     status          |-> j.status[2],
     origin_hash     |-> j.origin_hash[2],
     action_required |-> (j.action_required = <<"true">>)]

\* the report export_report builds, as json.dump writes it
ReportToJson(self) ==
    [meta |-> [module       |-> JString("Liora Identity Observer"),
               version      |-> JString("1.2"),
               generated_at |-> JString(Now(self)),
               origin_hash  |-> JString(self.origin_hash),
               threshold    |-> JNumber(self.threshold)],
     audit_trail |-> [i \in 1..Len(self.history) |-> EventToJson(self.history[i])]]

\* open(filename, "a"): the new document follows what the file held
WriteFileAppend(old, doc) == Append(old, doc)

\* open(filename, "w") and json.dump: the file holds the new document alone
WriteFile(old, doc) == <<doc>>

\* json.load of a file's content: one document exactly, or a parse error
JsonLoad(content) ==
    IF Len(content) # 1
    THEN Raise("JSONDecodeError")
    ELSE LET j == content[1]
         IN  Return([meta |-> [module       |-> j.meta.module[2],
                               version      |-> j.meta.version[2],
                               generated_at |-> j.meta.generated_at[2],
                               origin_hash  |-> j.meta.origin_hash[2],
                               threshold    |-> j.meta.threshold[2]],
                     audit_trail |-> [i \in 1..Len(j.audit_trail) |->
                                         EventFromJson(j.audit_trail[i])]])

-----------------------------------------------------------------------------
(* The program *)

Init ==
    /\ pc = "start"
    /\ sentinel = NoSentinel
    /\ twin = NoSentinel
    /\ raised = None
    /\ calls = <<>>
    /\ returns = <<>>
    /\ twin_returns = <<>>
    /\ files = [f \in Filenames |-> <<>>]

\* LioraSentinel(origin_tii, threshold, window_size), and its twin with the
\* window size TwinWindow
Construct(origin_tii, threshold, window_size) ==
    /\ pc = "start"
    /\ \E s \in {SentinelInit(origin_tii, threshold, window_size)},
          t \in {SentinelInit(origin_tii, threshold, TwinWindow)} :
          /\ sentinel' = s.value
          /\ twin' = t.value
          /\ raised' = s.raised
          /\ pc' = IF s.raised = None THEN "running" ELSE "failed"
    /\ UNCHANGED <<calls, returns, twin_returns, files>>

\* sentinel.observe(current_tii, timestep_id), and the same call on the twin
Observe(current_tii, timestep_id) ==
    /\ pc = "running"
    /\ Len(sentinel.history) < MaxCalls
    /\ \E s \in {ObserveOp(sentinel, current_tii, timestep_id)},
          t \in {ObserveOp(twin, current_tii, timestep_id)} :
          /\ sentinel' = s.self
          /\ twin' = t.self
          /\ raised' = s.out.raised
          /\ IF s.out.raised = None
             THEN /\ calls' = Append(calls, [current_tii |-> current_tii,
                                             timestep_id |-> timestep_id])
                  /\ returns' = Append(returns, s.out.value)
                  /\ twin_returns' = Append(twin_returns, t.out.value)
             ELSE UNCHANGED <<calls, returns, twin_returns>>
    /\ UNCHANGED <<pc, files>>

\* sentinel.export_report(filename)
ExportReport(filename) ==
    /\ pc = "running"
    /\ files' = [files EXCEPT ![filename] = WriteFile(@, ReportToJson(sentinel))]
    /\ raised' = None
    /\ UNCHANGED <<pc, sentinel, twin, calls, returns, twin_returns>>

Next ==
    \/ \E o \in Origins, t \in Thresholds, w \in WindowSizes : Construct(o, t, w)
    \/ \E v \in Vectors, id \in StepIds : Observe(v, id)
    \/ \E f \in Filenames : ExportReport(f)

Spec == Init /\ [][Next]_vars

-----------------------------------------------------------------------------
(* Properties *)

Running == pc = "running"

IsPrefix(a, b) == Len(a) <= Len(b) /\ \A i \in 1..Len(a) : a[i] = b[i]

AllZero(v) == \A i \in 1..Len(v) : v[i] = 0

\* the cosine distance of vector v against the origin of Sentinel s
InstantDrift(s, v) == cosine(s.origin_tii, normalize(v).value).value

Parsed(f) == JsonLoad(files[f]).value

\* C1: on every successful observe the returned is_safe is true exactly when
\* the instantaneous drift of the vector against the origin is <= threshold
\* (a drift equal to the threshold is safe), whatever the window holds, and
\* the event appended by the call is COHERENT with action_required false when
\* safe, DRIFT_ALERT with action_required true otherwise.
C1_InstantDecision ==
    Running =>
        /\ Len(returns) = Len(calls)
        /\ Len(sentinel.history) = Len(calls)
        /\ \A i \in 1..Len(calls) :
              LET d == InstantDrift(sentinel, calls[i].current_tii)
                  r == returns[i]
                  e == sentinel.history[i]
              IN  /\ r.drift = d
                  /\ r.is_safe = (d <= sentinel.threshold)
                  /\ r.is_safe => e.status = "COHERENT" /\ e.action_required = FALSE
                  /\ ~r.is_safe => e.status = "DRIFT_ALERT" /\ e.action_required = TRUE

\* a run in which one call was alerted although the windowed average was
\* within the threshold, and another call with drift = threshold was safe
C1_Witness ==
    /\ Running
    /\ \E i \in 1..Len(returns) :
          /\ returns[i].drift > sentinel.threshold
          /\ returns[i].avg_drift <= sentinel.threshold
          /\ ~returns[i].is_safe
          /\ sentinel.history[i].status = "DRIFT_ALERT"
    /\ \E j \in 1..Len(returns) :
          /\ returns[j].drift = sentinel.threshold
          /\ returns[j].is_safe

\* C2: two Sentinels with one origin and threshold and different window
\* sizes, fed the same vectors, return the same is_safe and the same drift at
\* every step and record the same status labels.
C2_WindowNeverDecides ==
    Running =>
        /\ Len(twin_returns) = Len(returns)
        /\ Len(twin.history) = Len(sentinel.history)
        /\ \A i \in 1..Len(returns) :
              /\ twin_returns[i].is_safe = returns[i].is_safe
              /\ twin_returns[i].drift = returns[i].drift
              /\ twin.history[i].status = sentinel.history[i].status
              /\ twin.history[i].action_required = sentinel.history[i].action_required

\* the two windows differ in size and the averages of a step differ
C2_Witness ==
    /\ Running
    /\ twin.origin_tii = sentinel.origin_tii
    /\ twin.threshold = sentinel.threshold
    /\ twin.recent_drifts.maxlen # sentinel.recent_drifts.maxlen
    /\ \E i \in 1..Len(returns) :
          /\ twin_returns[i].avg_drift # returns[i].avg_drift
          /\ (twin_returns[i].avg_drift <= sentinel.threshold)
                # (returns[i].avg_drift <= sentinel.threshold)

\* C3: the audit trail is append-only and in call order: after N successful
\* observe calls it holds N events, the i-th carrying the step id of the i-th
\* call unchanged, and every observe or export_report step leaves the events
\* already recorded in place (the old trail is a prefix of the new one).
C3_AppendOnly ==
    [][pc' = "running" =>
          /\ Len(sentinel'.history) = Len(calls')
          /\ \A i \in 1..Len(calls') :
                sentinel'.history[i].step_id = calls'[i].timestep_id
          /\ Running => IsPrefix(sentinel.history, sentinel'.history)]_vars

\* three calls with step ids 2, None, 1 (non-monotonic, one omitted), a
\* report exported after the first of them
C3_Witness ==
    /\ Running
    /\ Len(calls) = 3
    /\ calls[1].timestep_id = PyInt(2)
    /\ calls[2].timestep_id = None
    /\ calls[3].timestep_id = PyInt(1)
    /\ \E f \in Filenames :
          /\ files[f] # <<>>
          /\ Len(Parsed(f).audit_trail) = 1

\* the window of Sentinel s holds the drifts of the last min(N, W) calls
WindowHoldsLast(s, rets) ==
    LET N == Len(rets)
        W == s.recent_drifts.maxlen
        k == IF N < W THEN N ELSE W
    IN  /\ Len(s.recent_drifts.items) <= W
        /\ s.recent_drifts.items = [j \in 1..k |-> rets[N - k + j].drift]

\* C4: the DriftWindow of a Sentinel of window_size W >= 1 never holds more
\* than W entries, and after N successful observe calls it holds the raw
\* drifts of the last min(N, W) calls in call order (oldest evicted first).
C4_WindowFifo ==
    Running =>
        /\ sentinel.recent_drifts.maxlen >= 1
        /\ WindowHoldsLast(sentinel, returns)
        /\ WindowHoldsLast(twin, twin_returns)

\* a full window after more calls than it holds, the evicted drift being
\* different from the ones kept
C4_Witness ==
    /\ Running
    /\ Len(returns) > sentinel.recent_drifts.maxlen
    /\ sentinel.recent_drifts.maxlen > 1
    /\ Len(sentinel.recent_drifts.items) = sentinel.recent_drifts.maxlen
    /\ \A x \in 1..Len(sentinel.recent_drifts.items) :
          sentinel.recent_drifts.items[x] # returns[1].drift

\* C5: an observe call that raises leaves the audit trail, the window, the
\* threshold, the origin and the origin hash as they were and returns
\* nothing; an observe call that returns appends exactly one event and
\* returns exactly one decision.
C5_NoPartialFailure ==
    [][Running =>
          /\ raised' # None =>
                /\ sentinel' = sentinel
                /\ twin' = twin
                /\ returns' = returns
                /\ calls' = calls
                /\ files' = files
          /\ calls' # calls =>
                /\ raised' = None
                /\ Len(sentinel'.history) = Len(sentinel.history) + 1
                /\ Len(returns') = Len(returns) + 1
                /\ IsPrefix(sentinel.history, sentinel'.history)
                /\ IsPrefix(returns, returns')]_vars

\* an observe call has raised on a Sentinel that holds events and drifts
C5_Witness ==
    /\ Running
    /\ raised = ValueError
    /\ Len(sentinel.history) >= 2
    /\ Len(sentinel.recent_drifts.items) >= 2

\* every call that has to normalize a zero-magnitude vector raises an
\* exception of this kind and returns nothing: a construction leaves no
\* Sentinel (and so no audit trail) behind, an observe call no decision
ZeroVectorRaises(kind) ==
    /\ \A o \in Origins, t \in Thresholds, w \in WindowSizes :
          (AllZero(o) /\ Construct(o, t, w)) =>
              /\ raised' = <<"exception", kind>>
              /\ sentinel' = NoSentinel
              /\ twin' = NoSentinel
              /\ pc' = "failed"
    /\ \A v \in Vectors, id \in StepIds :
          (AllZero(v) /\ Observe(v, id)) =>
              /\ raised' = <<"exception", kind>>
              /\ returns' = returns

StampedLike(content, s) ==
    /\ JsonLoad(content).raised = None
    /\ JsonLoad(content).value.meta.threshold = s.threshold
    /\ JsonLoad(content).value.meta.origin_hash = s.origin_hash

\* C7: threshold, normalized origin and origin hash are fixed at
\* construction: no observe or export_report step changes them, every event
\* of the trail carries that threshold and that origin hash, and so does the
\* meta section of every exported report.
C7_StampsFixed ==
    [][pc' = "running" =>
          /\ Running =>
                /\ sentinel'.threshold = sentinel.threshold
                /\ sentinel'.origin_tii = sentinel.origin_tii
                /\ sentinel'.origin_hash = sentinel.origin_hash
          /\ sentinel'.origin_hash = stable_vector_hash(sentinel'.origin_tii)
          /\ \A i \in 1..Len(sentinel'.history) :
                /\ sentinel'.history[i].threshold = sentinel'.threshold
                /\ sentinel'.history[i].origin_hash = sentinel'.origin_hash
          /\ \A f \in Filenames :
                files'[f] # <<>> => StampedLike(files'[f], sentinel')]_vars

\* a report exported after the first call, two more calls made since
C7_Witness ==
    /\ Running
    /\ Len(sentinel.history) = 3
    /\ \E f \in Filenames :
          /\ files[f] # <<>>
          /\ Len(Parsed(f).audit_trail) = 1
          /\ Parsed(f).audit_trail[1].origin_hash = sentinel.history[3].origin_hash

\* the content of a report file, parsed back, reproduces Sentinel s and the
\* observe calls made on it
RoundTrips(content, s, cs, rets) ==
    LET p == JsonLoad(content)
    IN  /\ p.raised = None
        /\ p.value.meta.threshold = s.threshold
        /\ p.value.meta.origin_hash = s.origin_hash
        /\ Len(p.value.audit_trail) = Len(cs)
        /\ \A i \in 1..Len(cs) :
              /\ p.value.audit_trail[i].step_id = cs[i].timestep_id
              /\ p.value.audit_trail[i].status = StatusOf(rets[i].is_safe)

Cross(u, v) == u[1] * v[2] - u[2] * v[1]

\* C9: the drift observe returns is the cosine distance: it lies in [0, 2],
\* is 0 for a vector in the origin's direction, 1 for an orthogonal one and 2
\* for the opposite one; with origin [1, 0] and threshold 0.01 the calls
\* observe([1, 0]), observe([0, 1]), observe([-1, 0]) return drift 0, 1, 2
\* and safe true, false, false.
C9_CosineDistance ==
    Running =>
        /\ \A i \in 1..Len(calls) :
              LET o == sentinel.origin_tii.num
                  v == calls[i].current_tii
                  d == returns[i].drift
              IN  /\ 0 <= d /\ d <= 2 * SCALE
                  /\ (Cross(o, v) = 0 /\ Dot(o, v) > 0) => d = 0
                  /\ Dot(o, v) = 0 => d = SCALE
                  /\ (Cross(o, v) = 0 /\ Dot(o, v) < 0) => d = 2 * SCALE
        /\ ( /\ sentinel.origin_tii = [num |-> <<1, 0>>, den |-> 1]
             /\ sentinel.threshold = SCALE \div 100
             /\ [i \in 1..Len(calls) |-> calls[i].current_tii]
                   = << <<1, 0>>, <<0, 1>>, <<-1, 0>> >> )
           => /\ [i \in 1..Len(returns) |-> returns[i].drift]
                    = <<0, SCALE, 2 * SCALE>>
              /\ [i \in 1..Len(returns) |-> returns[i].is_safe]
                    = <<TRUE, FALSE, FALSE>>

\* the scenario has been run
C9_Witness ==
    /\ Running
    /\ sentinel.origin_tii = [num |-> <<1, 0>>, den |-> 1]
    /\ sentinel.threshold = SCALE \div 100
    /\ [i \in 1..Len(calls) |-> calls[i].current_tii]
          = << <<1, 0>>, <<0, 1>>, <<-1, 0>> >>

====
